---------------------------- MODULE Spec2Model ----------------------------
(***************************************************************************)
(* NID Parser API (src/main.py): the text-to-field extraction engine, the  *)
(* document router extract_fields_by_type and the POST /extract-nid-info/  *)
(* endpoint.                                                               *)
(*                                                                         *)
(* A Python str is modelled as a sequence of one-character strings, so     *)
(* that substrings, whitespace and word boundaries are what they are in    *)
(* the program.  The regular expressions of the source are kept as syntax  *)
(* trees and run by a backtracking matcher with the priorities of Python's *)
(* re module (leftmost start, alternatives left to right, greedy repeats   *)
(* longest first, lazy repeats shortest first).                            *)
(***************************************************************************)
EXTENDS Integers, Sequences, FiniteSets, TLC

(***************************************************************************)
(* Characters.                                                             *)
(***************************************************************************)
Upper == {"A","B","C","D","E","F","G","H","I","J","K","L","M",
          "N","O","P","Q","R","S","T","U","V","W","X","Y","Z"}

Lower == {"a","b","c","d","e","f","g","h","i","j","k","l","m",
          "n","o","p","q","r","s","t","u","v","w","x","y","z"}

Digit == {"0","1","2","3","4","5","6","7","8","9"}

\* \s of the re module, restricted to the characters the texts use
Whitespace == {" ", "\n", "\t"}

\* \w of the re module, restricted likewise
WordChar == Upper \cup Lower \cup Digit \cup {"_"}

UpperToLower ==
    ("A" :> "a") @@ ("B" :> "b") @@ ("C" :> "c") @@ ("D" :> "d") @@
    ("E" :> "e") @@ ("F" :> "f") @@ ("G" :> "g") @@ ("H" :> "h") @@
    ("I" :> "i") @@ ("J" :> "j") @@ ("K" :> "k") @@ ("L" :> "l") @@
    ("M" :> "m") @@ ("N" :> "n") @@ ("O" :> "o") @@ ("P" :> "p") @@
    ("Q" :> "q") @@ ("R" :> "r") @@ ("S" :> "s") @@ ("T" :> "t") @@
    ("U" :> "u") @@ ("V" :> "v") @@ ("W" :> "w") @@ ("X" :> "x") @@
    ("Y" :> "y") @@ ("Z" :> "z")

\* the other case of a cased character (re.IGNORECASE compares both cases)
SwapCase(c) ==
    IF c \in Upper THEN UpperToLower[c]
    ELSE IF c \in Lower THEN CHOOSE u \in Upper : UpperToLower[u] = c
    ELSE c

(***************************************************************************)
(* Regular expression syntax trees.                                        *)
(***************************************************************************)
\* one character out of the set s: a literal, \d, \s, [A-Z], [/\-.]
Set(s) == [op |-> "set", s |-> s]

Chr(c) == Set({c})

\* r1 r2 ... rn
Cat(rs) == [op |-> "cat", rs |-> rs]

\* a literal string
Lit(str) == [op |-> "lit", str |-> str]

\* r1|r2|...|rn, tried left to right
Alt(rs) == [op |-> "alt", rs |-> rs]

\* r{lo,hi}; hi < 0 stands for no upper limit; greedy or lazy
Rep(r, lo, hi, greedy) ==
    [op |-> "rep", r |-> r, lo |-> lo, hi |-> hi, greedy |-> greedy]

Star(r) == Rep(r, 0, -1, TRUE)

LazyStar(r) == Rep(r, 0, -1, FALSE)

Plus(r) == Rep(r, 1, -1, TRUE)

Opt(r) == Rep(r, 0, 1, TRUE)

\* (r) as capturing group n
Grp(n, r) == [op |-> "grp", n |-> n, r |-> r]

\* (?=r)
Look(r) == [op |-> "look", r |-> r]

\* \b
WordB == [op |-> "wordb"]

\* $
Eos == [op |-> "eos"]

\* the end of the string, as re.fullmatch requires it
EndOfString == [op |-> "end"]

(***************************************************************************)
(* The backtracking matcher.  A state of a match is where it started, the  *)
(* position reached (1-based, the next character to read), the groups      *)
(* captured so far and the choices made so far: one number for every       *)
(* alternative or repeat passed, 1 for what a backtracking matcher tries   *)
(* first.  Steps gives every way a regular expression can match from the   *)
(* given states; the match re reports is the one a backtracking matcher    *)
(* finds first: leftmost start, then the earliest choices.                 *)
(***************************************************************************)
\* F(x) with x the value of v: an assignment x = v of the program, followed
\* by the code that reads x
Bind(v, F(_)) == CHOOSE result \in {F(x) : x \in {v}} : TRUE

NoMatch == [ok |-> FALSE]

\* a group that did not take part in the match
Unset == <<0, 0>>

NoGroups == [n \in 1..3 |-> Unset]

\* the states in which a match may start: anywhere in t from position from on
Starts(t, from) ==
    {[start |-> s, pos |-> s, caps |-> NoGroups, choices |-> <<>>] :
        s \in from..(Len(t) + 1)}

\* the state st after the choice c
Chose(st, c) == [st EXCEPT !.choices = Append(@, c)]

IsWordAt(t, i) == i >= 1 /\ i <= Len(t) /\ t[i] \in WordChar

InSet(c, s, ic) == c \in s \/ (ic /\ SwapCase(c) \in s)

\* the literal str stands in t at position i
LitAt(str, t, i, ic) ==
    /\ i + Len(str) - 1 <= Len(t)
    /\ \A k \in 1..Len(str) : InSet(t[i + k - 1], {str[k]}, ic)

\* the number of characters of t from position i on that are in s, one after
\* the other
RunLen(s, t, i, ic) ==
    CHOOSE n \in 0..(Len(t) + 1 - i) :
        /\ (i + n <= Len(t) => ~InSet(t[i + n], s, ic))
        /\ \A k \in 0..(n - 1) : InSet(t[i + k], s, ic)

\* the most characters the repeat r takes of a run of run characters
Most(r, run) == IF r.hi >= 0 /\ r.hi < run THEN r.hi ELSE run

\* the characters the repeat r takes of a run of run characters as its choice
\* j: greedy, the whole run (at most hi) first and then one less at a time
\* down to lo; lazy, lo first and then one more at a time
Taken(r, run, j) == IF r.greedy THEN Most(r, run) - j + 1 ELSE r.lo + j - 1

\* the greatest number of choices the repeat r has from one of the states,
\* runs giving the run of characters found at each state
Widest(r, runs) ==
    IF runs = {} THEN 0
    ELSE Most(r, CHOOSE w \in {a.run : a \in runs} : \A a \in runs : a.run <= w)
             - r.lo + 1

\* a repeat of one character set from the states sts: from each state, every
\* choice the run of such characters at the state allows
RunStates(r, t, sts, ic) ==
    Bind({[st |-> st, run |-> RunLen(r.r.s, t, st.pos, ic)] : st \in sts}, LAMBDA runs :
        {[p[1].st EXCEPT !.pos = @ + Taken(r, p[1].run, p[2]),
                         !.choices = Append(@, p[2])] :
            p \in {p \in runs \X (1..Widest(r, runs)) :
                      p[2] <= Most(r, p[1].run) - r.lo + 1}})

RECURSIVE Steps(_, _, _, _)
RECURSIVE StepsCat(_, _, _, _, _)
RECURSIVE RepFrom(_, _, _, _, _)

\* the states after r, from the states sts
Steps(r, t, sts, ic) ==
    CASE r.op = "set" ->
            {[st EXCEPT !.pos = @ + 1] :
                st \in {st \in sts : st.pos <= Len(t) /\ InSet(t[st.pos], r.s, ic)}}
      [] r.op = "lit" ->
            {[st EXCEPT !.pos = @ + Len(r.str)] :
                st \in {st \in sts : LitAt(r.str, t, st.pos, ic)}}
      [] r.op = "cat" -> StepsCat(r.rs, 1, t, sts, ic)
      [] r.op = "alt" ->
            UNION {Steps(r.rs[j], t, {Chose(st, j) : st \in sts}, ic) :
                      j \in 1..Len(r.rs)}
      [] r.op = "rep" /\ r.r.op = "set" ->
            RunStates(r, t, sts, ic)
      [] r.op = "rep" /\ r.r.op # "set" ->
            Bind(sts, LAMBDA from : RepFrom(r, 0, t, from, ic))
      [] r.op = "grp" ->
            {[st EXCEPT !.caps[r.n] = <<@[1], st.pos>>] :
                st \in Steps(r.r, t,
                             {[st EXCEPT !.caps[r.n] = <<st.pos, 0>>] : st \in sts},
                             ic)}
      [] r.op = "look" -> {st \in sts : Steps(r.r, t, {st}, ic) # {}}
      [] r.op = "wordb" ->
            {st \in sts : IsWordAt(t, st.pos - 1) # IsWordAt(t, st.pos)}
      [] r.op = "eos" ->
            {st \in sts : \/ st.pos = Len(t) + 1
                          \/ (st.pos = Len(t) /\ t[st.pos] = "\n")}
      [] r.op = "end" -> {st \in sts : st.pos = Len(t) + 1}

\* rs[i] rs[i+1] ... : each in turn, from the states the one before it reached
StepsCat(rs, i, t, sts, ic) ==
    IF i > Len(rs) \/ sts = {} THEN sts
    ELSE Bind(Steps(rs[i], t, sts, ic), LAMBDA next : StepsCat(rs, i + 1, t, next, ic))

\* r{lo,hi} of a regular expression that is not one character set, from the
\* states sts after n repetitions: greedy, one more repetition is tried before
\* stopping; lazy, after.  (No repeated expression of the program matches the
\* empty string.)
RepFrom(r, n, t, sts, ic) ==
    IF sts = {} THEN {}
    ELSE (IF n >= r.lo THEN {Chose(st, IF r.greedy THEN 2 ELSE 1) : st \in sts} ELSE {})
         \cup
         (IF r.hi >= 0 /\ n >= r.hi THEN {}
          ELSE Bind(Steps(r.r, t, {Chose(st, IF r.greedy THEN 1 ELSE 2) : st \in sts}, ic),
                    LAMBDA once : RepFrom(r, n + 1, t, once, ic)))

\* the choices a were made before the choices b by a backtracking matcher
Earlier(a, b) ==
    \E i \in 1..Len(a) :
        /\ i <= Len(b)
        /\ a[i] < b[i]
        /\ \A j \in 1..(i - 1) : a[j] = b[j]

\* of the matches found (not none), the one re reports: leftmost start, then
\* the earliest choices
First(found) ==
    CHOOSE st \in UNION {{st \in found : st.start = s} :
                            s \in {CHOOSE s \in {st.start : st \in found} :
                                      \A o \in found : s <= o.start}} :
        \A o \in found :
            o.start = st.start => (o = st \/ Earlier(st.choices, o.choices))

\* the match object of a state reached
MatchOf(st) == [ok |-> TRUE, start |-> st.start, end |-> st.pos, caps |-> st.caps]

\* re.search(r, t)
Search(r, t, ic) ==
    Bind(Steps(r, t, Starts(t, 1), ic), LAMBDA found :
        IF found = {} THEN NoMatch ELSE MatchOf(First(found)))

\* re.fullmatch(r, t) is not None
FullMatch(r, t, ic) ==
    Steps(Cat(<<r, EndOfString>>), t, {st \in Starts(t, 1) : st.start = 1}, ic) # {}

\* the non-overlapping matches among found from position from on, left to right
RECURSIVE FindAllFrom(_, _)
FindAllFrom(found, from) ==
    IF {st \in found : st.start >= from} = {} THEN <<>>
    ELSE Bind(MatchOf(First({st \in found : st.start >= from})), LAMBDA m :
             <<m>> \o FindAllFrom(found, IF m.end > m.start THEN m.end ELSE m.end + 1))

\* the non-overlapping matches of r in t, left to right (re.finditer, re.findall)
FindAll(r, t, ic) ==
    Bind(Steps(r, t, Starts(t, 1), ic), LAMBDA found : FindAllFrom(found, 1))

\* t[a:b] for positions counted from 1
Slice(t, a, b) == SubSeq(t, a, b - 1)

\* match.group(0)
Group0(t, m) == Slice(t, m.start, m.end)

\* match.group(n) of a group that took part; findall's "" for one that did not
GroupN(t, m, n) == IF m.caps[n] = Unset THEN <<>> ELSE Slice(t, m.caps[n][1], m.caps[n][2])

(***************************************************************************)
(* str methods.                                                            *)
(***************************************************************************)
\* the positions of t, in order
Positions(t) == [i \in 1..Len(t) |-> i]

\* t.strip(): t from its first to its last character that is not whitespace
Strip(t) ==
    Bind(t, LAMBDA s :
    Bind(SelectSeq(Positions(s), LAMBDA i : s[i] \notin Whitespace), LAMBDA inked :
        IF inked = <<>> THEN <<>> ELSE SubSeq(s, inked[1], inked[Len(inked)])))

\* t.split(): the words between runs of whitespace, none of them empty
Split(t) ==
    Bind(t, LAMBDA s :
    Bind(SelectSeq(Positions(s), LAMBDA i :
             s[i] \notin Whitespace /\ (i = 1 \/ s[i - 1] \in Whitespace)),
         LAMBDA starts :
    Bind(SelectSeq(Positions(s), LAMBDA i :
             s[i] \notin Whitespace /\ (i = Len(s) \/ s[i + 1] \in Whitespace)),
         LAMBDA ends :
        [k \in 1..Len(starts) |-> SubSeq(s, starts[k], ends[k])] \o <<>>)))

\* ' '.join(words)
RECURSIVE JoinFrom(_, _)
JoinFrom(words, i) ==
    IF i > Len(words) THEN <<>>
    ELSE IF i = Len(words) THEN words[i]
    ELSE words[i] \o <<" ">> \o JoinFrom(words, i + 1)

Join(words) == Bind(words, LAMBDA ws : JoinFrom(ws, 1))

\* re.split(r, t): the pieces of t between the matches of r
ReSplit(r, t) ==
    Bind(FindAll(r, t, FALSE), LAMBDA ms :
        [k \in 1..(Len(ms) + 1) |->
            Slice(t, IF k = 1 THEN 1 ELSE ms[k - 1].end,
                     IF k > Len(ms) THEN Len(t) + 1 ELSE ms[k].start)] \o <<>>)

\* the absence value (Python's None)
None == "None"

(***************************************************************************)
(* extract_date_of_birth                                                   *)
(***************************************************************************)
DateSep == Set({"/", "-", "."})

MonthName ==
    Alt(<<Lit(<<"J","a","n">>), Lit(<<"F","e","b">>), Lit(<<"M","a","r">>),
          Lit(<<"A","p","r">>), Lit(<<"M","a","y">>), Lit(<<"J","u","n">>),
          Lit(<<"J","u","l">>), Lit(<<"A","u","g">>), Lit(<<"S","e","p">>),
          Lit(<<"O","c","t">>), Lit(<<"N","o","v">>), Lit(<<"D","e","c">>)>>)

date_patterns == <<
    \* \b(\d{1,2})[/\-.](\d{1,2})[/\-.](\d{2,4})\b
    Cat(<<WordB, Grp(1, Rep(Set(Digit), 1, 2, TRUE)), DateSep,
          Grp(2, Rep(Set(Digit), 1, 2, TRUE)), DateSep,
          Grp(3, Rep(Set(Digit), 2, 4, TRUE)), WordB>>),
    \* \b(\d{4})[/\-.](\d{1,2})[/\-.](\d{1,2})\b
    Cat(<<WordB, Grp(1, Rep(Set(Digit), 4, 4, TRUE)), DateSep,
          Grp(2, Rep(Set(Digit), 1, 2, TRUE)), DateSep,
          Grp(3, Rep(Set(Digit), 1, 2, TRUE)), WordB>>),
    \* \b(\d{1,2})\s+(Jan|...|Dec)[a-z]*\s+(\d{2,4})\b
    Cat(<<WordB, Grp(1, Rep(Set(Digit), 1, 2, TRUE)), Plus(Set(Whitespace)),
          Grp(2, MonthName), Star(Set(Lower)), Plus(Set(Whitespace)),
          Grp(3, Rep(Set(Digit), 2, 4, TRUE)), WordB>>),
    \* \b(Jan|...|Dec)[a-z]*\s+(\d{1,2}),?\s+(\d{2,4})\b
    Cat(<<WordB, Grp(1, MonthName), Star(Set(Lower)), Plus(Set(Whitespace)),
          Grp(2, Rep(Set(Digit), 1, 2, TRUE)), Opt(Chr(",")), Plus(Set(Whitespace)),
          Grp(3, Rep(Set(Digit), 2, 4, TRUE)), WordB>>) >>

\* the loop of extract_date_of_birth with the patterns tried together: the
\* match that starts first in the text, whatever pattern found it
DateFrom_leftmost(text, k) ==
    LET found == {m \in {Search(date_patterns[j], text, TRUE) :
                             j \in k..Len(date_patterns)} : m.ok}
    IN  IF found = {} THEN None
        ELSE Group0(text, CHOOSE m \in found : \A n \in found : m.start <= n.start)

\* the loop over the patterns from pattern k on: the first match of the first
\* pattern that has one
RECURSIVE DateFrom(_, _)
DateFrom(text, k) ==
    IF k > Len(date_patterns) THEN None
    ELSE Bind(Search(date_patterns[k], text, TRUE), LAMBDA m :
             IF m.ok THEN Group0(text, m) ELSE DateFrom(text, k + 1))

extract_date_of_birth(text) == DateFrom(text, 1)

(***************************************************************************)
(* extract_nid_number                                                      *)
(***************************************************************************)
\* (\d[\d\s]+)
LabelledDigits == Grp(1, Cat(<<Set(Digit), Plus(Set(Digit \cup Whitespace))>>))

LabelSep == Star(Set({":"} \cup Whitespace))

nid_patterns == <<
    \* \b(\d{2,6}(?:\s\d{2,6}){2,5})\b
    Cat(<<WordB,
          Grp(1, Cat(<<Rep(Set(Digit), 2, 6, TRUE),
                       Rep(Cat(<<Set(Whitespace), Rep(Set(Digit), 2, 6, TRUE)>>),
                           2, 5, TRUE)>>)),
          WordB>>),
    \* \b(\d{10,17})\b
    Cat(<<WordB, Grp(1, Rep(Set(Digit), 10, 17, TRUE)), WordB>>),
    \* \bNID[:\s]*(\d[\d\s]+)\b
    Cat(<<WordB, Lit(<<"N","I","D">>), LabelSep, LabelledDigits, WordB>>),
    \* \bID[:\s]*(\d[\d\s]+)\b
    Cat(<<WordB, Lit(<<"I","D">>), LabelSep, LabelledDigits, WordB>>),
    \* \bNational\s+ID[:\s]*(\d[\d\s]+)\b
    Cat(<<WordB, Lit(<<"N","a","t","i","o","n","a","l">>), Plus(Set(Whitespace)),
          Lit(<<"I","D">>), LabelSep, LabelledDigits, WordB>>) >>

\* the loop of extract_nid_number with every whitespace character removed from
\* the match (replace in place of strip)
RECURSIVE NidFrom_squeezed(_, _)
NidFrom_squeezed(text, k) ==
    IF k > Len(nid_patterns) THEN None
    ELSE Bind(Search(nid_patterns[k], text, TRUE), LAMBDA m :
             IF m.ok
             THEN SelectSeq(GroupN(text, m, 1), LAMBDA c : c \notin Whitespace)
             ELSE NidFrom_squeezed(text, k + 1))

\* the loop of extract_nid_number with the patterns tried together: the match
\* that starts first in the text, whatever pattern found it
NidFrom_leftmost(text, k) ==
    LET found == {m \in {Search(nid_patterns[j], text, TRUE) :
                             j \in k..Len(nid_patterns)} : m.ok}
    IN  IF found = {} THEN None
        ELSE Strip(GroupN(text, CHOOSE m \in found : \A n \in found : m.start <= n.start, 1))

\* the loop over the patterns from pattern k on: matches[0].strip() of the
\* first pattern for which re.findall finds something
RECURSIVE NidFrom(_, _)
NidFrom(text, k) ==
    IF k > Len(nid_patterns) THEN None
    ELSE Bind(Search(nid_patterns[k], text, TRUE), LAMBDA m :
             IF m.ok THEN Strip(GroupN(text, m, 1)) ELSE NidFrom(text, k + 1))

extract_nid_number(text) == NidFrom(text, 1)

(***************************************************************************)
(* extract_name                                                            *)
(***************************************************************************)
Spaces == Plus(Set(Whitespace))

\* MD:\s*([A-Z][A-Z]+(?:\s+[A-Z]+)*?)(?=\s+(?:Data|Date|of|Birth|0t|Birth|ara|@ue|\d|$))
md_pattern ==
    Cat(<<Lit(<<"M","D",":">>), Star(Set(Whitespace)),
          Grp(1, Cat(<<Set(Upper), Plus(Set(Upper)),
                       LazyStar(Cat(<<Spaces, Plus(Set(Upper))>>))>>)),
          Look(Cat(<<Spaces,
                     Alt(<<Lit(<<"D","a","t","a">>), Lit(<<"D","a","t","e">>),
                           Lit(<<"o","f">>), Lit(<<"B","i","r","t","h">>),
                           Lit(<<"0","t">>), Lit(<<"B","i","r","t","h">>),
                           Lit(<<"a","r","a">>), Lit(<<"@","u","e">>),
                           Set(Digit), Eos>>)>>))>>)

\* rule 1: the name after "MD:", without a trailing single letter
md_rule(text) ==
    Bind(Search(md_pattern, text, FALSE), LAMBDA match :
        IF ~match.ok THEN None
        ELSE Bind(Split(Strip(GroupN(text, match, 1))), LAMBDA name_parts :
                 <<"M","D",":"," ">> \o
                 Join(IF Len(name_parts) > 1 /\ Len(name_parts[Len(name_parts)]) = 1
                      THEN SubSeq(name_parts, 1, Len(name_parts) - 1)
                      ELSE name_parts)))

\* MD[\.,\-]?
md_token == Cat(<<Lit(<<"M","D">>), Opt(Set({".", ",", "-"}))>>)

\* Name[:\s]+((?:MD[\.,\-]?\s*)?(?:[A-Z][A-Z]+(?:\s+|\.|$))+)
name_pattern ==
    Cat(<<Lit(<<"N","a","m","e">>), Plus(Set({":"} \cup Whitespace)),
          Grp(1, Cat(<<Opt(Cat(<<md_token, Star(Set(Whitespace))>>)),
                       Plus(Cat(<<Set(Upper), Plus(Set(Upper)),
                                  Alt(<<Spaces, Chr("."), Eos>>)>>))>>))>>)

\* the loop over the words of the label rule: "MD." for an honorific token,
\* the word itself when it is all upper case, nothing otherwise
NameWords(words) ==
    Bind(SelectSeq(words, LAMBDA w :
             \/ FullMatch(md_token, w, FALSE)
             \/ FullMatch(Plus(Set(Upper)), w, FALSE)),
         LAMBDA kept :
        [k \in 1..Len(kept) |->
            IF FullMatch(md_token, kept[k], FALSE) THEN <<"M","D",".">>
            ELSE kept[k]] \o <<>>)

\* rule 2: the name after the label "Name"
name_rule(text) ==
    Bind(Search(name_pattern, text, FALSE), LAMBDA match :
        IF ~match.ok THEN None
        ELSE Bind(GroupN(text, match, 1), LAMBDA name :
             Bind(NameWords(ReSplit(Spaces, name)), LAMBDA filtered :
                 IF filtered # <<>> THEN Join(filtered) ELSE None)))

\* ([A-Z][A-Z]+(?:\s+[A-Z]+)*)\s+(?:Data|Date)\s+of\s+Birth
dob_context_pattern ==
    Cat(<<Grp(1, Cat(<<Set(Upper), Plus(Set(Upper)),
                       Star(Cat(<<Spaces, Plus(Set(Upper))>>))>>)),
          Spaces, Alt(<<Lit(<<"D","a","t","a">>), Lit(<<"D","a","t","e">>)>>),
          Spaces, Lit(<<"o","f">>), Spaces, Lit(<<"B","i","r","t","h">>)>>)

\* the words the context rule refuses
context_stoplist == 
    {
      <<"S","C","R","E","E","N","S","H","O","T">>,
      <<"R","E","C","O","R","D","E","R">>,
      <<"C","H","R","O","M","E">>,
      <<"E","X","T","E","N","S","I","O","N">> }

\* the candidate of the context rule: the upper-case run before "Date of Birth"
dob_context_candidate(text) ==
    Bind(Search(dob_context_pattern, text, FALSE), LAMBDA match :
        IF match.ok THEN Strip(GroupN(text, match, 1)) ELSE None)

\* the test of the context rule: at most 3 words, none of them in the stoplist
dob_context_accepts(name) ==
    \E words \in {Split(name)} :
        /\ Len(words) <= 3
        /\ ~ \E k \in 1..Len(words) : words[k] \in context_stoplist

\* rule 3: the name before "Date of Birth"
dob_context_rule(text) ==
    Bind(dob_context_candidate(text), LAMBDA name :
        IF name # None /\ dob_context_accepts(name) THEN name ELSE None)

\* (MD[\.,-]?\s*)?([A-Z]{2,}(?:\s+[A-Z]{2,})*)
fallback_pattern ==
    Cat(<<Opt(Grp(1, Cat(<<md_token, Star(Set(Whitespace))>>))),
          Grp(2, Cat(<<Rep(Set(Upper), 2, -1, TRUE),
                       Star(Cat(<<Spaces, Rep(Set(Upper), 2, -1, TRUE)>>))>>))>>)

\* the words the fallback rule removes
fallback_stoplist == 
    {
      <<"S","C","R","E","E","N","S","H","O","T">>,
      <<"R","E","C","O","R","D","E","R">>,
      <<"C","H","R","O","M","E">>,
      <<"E","X","T","E","N","S","I","O","N">>,
      <<"D","E","V","E","L","O","P","M","E","N","T">>,
      <<"I","N","T","E","R","V","I","E","W">>,
      <<"C","O","M","P","A","N","Y">>,
      <<"R","E","P","O","S","I","T","O","R","I","E","S">>,
      <<"R","E","S","E","A","R","C","H">>,
      <<"T","R","A","N","S","L","A","T","E">>,
      <<"F","E","E","D","B","A","C","K">>,
      <<"O","P","T","I","O","N","S">>,
      <<"P","E","O","P","L","E">>,
      <<"R","E","P","U","B","L","I","C">> }

\* the words of a run with the stoplist not applied
filtered_words_unfiltered(name_words) == name_words

\* [word for word in name_words if word not in the stoplist]
filtered_words(name_words) ==
    SelectSeq(name_words, LAMBDA word : word \notin fallback_stoplist)

\* the loop over the matches of the fallback pattern with a run dropped as a
\* whole when one of its words is in the stoplist
filtered_matches_whole_runs(text, all_caps) ==
    SelectSeq([k \in 1..Len(all_caps) |->
                 [prefix |-> GroupN(text, all_caps[k], 1),
                  name |-> Join(IF \E j \in 1..Len(Split(Strip(GroupN(text, all_caps[k], 2)))) :
                                      Split(Strip(GroupN(text, all_caps[k], 2)))[j]
                                          \in fallback_stoplist
                                THEN <<>>
                                ELSE Split(Strip(GroupN(text, all_caps[k], 2))))]],
              LAMBDA x : x.name # <<>>)

\* the loop over the matches of the fallback pattern: (prefix, remaining words)
\* of every match that keeps a word
filtered_matches(text, all_caps) ==
    SelectSeq([k \in 1..Len(all_caps) |->
                 [prefix |-> GroupN(text, all_caps[k], 1),
                  name |-> Join(filtered_words(
                               Split(Strip(GroupN(text, all_caps[k], 2)))))]],
              LAMBDA x : x.name # <<>>)

\* the key of max() with the honorific left out: the length of the run alone
fallback_key_of_run(x) == Len(Strip(x.name))

\* the key of max(): len((x[0] + x[1]).strip())
fallback_key(x) == Len(Strip(x.prefix \o x.name))

\* max(matches, key): the first of the entries with the greatest key
fallback_best(matches) ==
    Bind([k \in 1..Len(matches) |-> fallback_key(matches[k])] \o <<>>, LAMBDA keys :
        matches[CHOOSE k \in 1..Len(keys) :
                    /\ \A j \in 1..Len(keys) : keys[j] <= keys[k]
                    /\ \A j \in 1..(k - 1) : keys[j] < keys[k]])

\* rule 4: the longest run of upper-case words that are not in the stoplist
fallback_rule(text) ==
    Bind(FindAll(fallback_pattern, text, FALSE), LAMBDA all_caps :
    Bind(filtered_matches(text, all_caps), LAMBDA matches :
        IF matches = <<>> THEN None
        ELSE Bind(fallback_best(matches), LAMBDA best :
                 Join((IF best.prefix # <<>> THEN << <<"M","D",".">> >> ELSE <<>>)
                      \o << Strip(best.name) >>))))

\* the cascade tried from the most permissive rule to the strictest
extract_name_reversed(text) ==
    Bind(fallback_rule(text), LAMBDA by_fallback :
        IF by_fallback # None THEN by_fallback
        ELSE Bind(dob_context_rule(text), LAMBDA by_context :
                 IF by_context # None THEN by_context
                 ELSE Bind(name_rule(text), LAMBDA by_label :
                          IF by_label # None THEN by_label ELSE md_rule(text))))

\* the cascade: the first rule that yields a name
extract_name(text) ==
    Bind(md_rule(text), LAMBDA by_md :
        IF by_md # None THEN by_md
        ELSE Bind(name_rule(text), LAMBDA by_label :
                 IF by_label # None THEN by_label
                 ELSE Bind(dob_context_rule(text), LAMBDA by_context :
                          IF by_context # None THEN by_context
                          ELSE fallback_rule(text))))

(***************************************************************************)
(* extract_fields_by_type                                                  *)
(***************************************************************************)
\* BO\s*Account\s*Number\s*[:\-]?\s*(120\d{3}\s\d{10})
bo_pattern ==
    Cat(<<Lit(<<"B","O">>), Star(Set(Whitespace)),
          Lit(<<"A","c","c","o","u","n","t">>), Star(Set(Whitespace)),
          Lit(<<"N","u","m","b","e","r">>), Star(Set(Whitespace)),
          Opt(Set({":", "-"})), Star(Set(Whitespace)),
          Grp(1, Cat(<<Lit(<<"1","2","0">>), Rep(Set(Digit), 3, 3, TRUE),
                       Set(Whitespace), Rep(Set(Digit), 10, 10, TRUE)>>))>>)

\* \bTIN[\s:-]*(\d{9,12})\b
tin_pattern ==
    Cat(<<WordB, Lit(<<"T","I","N">>), Star(Set({":", "-"} \cup Whitespace)),
          Grp(1, Rep(Set(Digit), 9, 12, TRUE)), WordB>>)

\* match.group(1) if match else None
Group1OrNone(r, text) ==
    Bind(Search(r, text, TRUE), LAMBDA match :
        IF match.ok THEN GroupN(text, match, 1) ELSE None)

\* the record with every field absent
NoDetails ==
    [name |-> None, date_of_birth |-> None, nid_number |-> None,
     bo_id |-> None, tin_number |-> None]

\* extract_fields_by_type with the BO and TIN patterns applied whatever the
\* document type is
extract_fields_by_type_ungated(doc_type, text) ==
    LET found == [NoDetails EXCEPT !.bo_id = Group1OrNone(bo_pattern, text),
                                   !.tin_number = Group1OrNone(tin_pattern, text)]
    IN  IF doc_type = "NID"
        THEN [found EXCEPT !.name = extract_name(text),
                           !.date_of_birth = extract_date_of_birth(text),
                           !.nid_number = extract_nid_number(text)]
        ELSE found

\* extract_fields_by_type with the document type compared whatever its case
extract_fields_by_type_anycase(doc_type, text) ==
    IF doc_type \in {"NID", "nid"}
    THEN [NoDetails EXCEPT !.name = extract_name(text),
                           !.date_of_birth = extract_date_of_birth(text),
                           !.nid_number = extract_nid_number(text)]
    ELSE IF doc_type \in {"BO", "bo"}
    THEN [NoDetails EXCEPT !.bo_id = Group1OrNone(bo_pattern, text)]
    ELSE IF doc_type \in {"TIN", "tin"}
    THEN [NoDetails EXCEPT !.tin_number = Group1OrNone(tin_pattern, text)]
    ELSE NoDetails

\* if doc_type == 'NID' ... elif doc_type == 'BO' ... elif doc_type == 'TIN'
extract_fields_by_type(doc_type, text) ==
    IF doc_type = "NID"
    THEN [NoDetails EXCEPT !.name = extract_name(text),
                           !.date_of_birth = extract_date_of_birth(text),
                           !.nid_number = extract_nid_number(text)]
    ELSE IF doc_type = "BO"
    THEN [NoDetails EXCEPT !.bo_id = Group1OrNone(bo_pattern, text)]
    ELSE IF doc_type = "TIN"
    THEN [NoDetails EXCEPT !.tin_number = Group1OrNone(tin_pattern, text)]
    ELSE NoDetails

(***************************************************************************)
(* The inputs: a POST to /extract-nid-info/ and what the OCR engine reads  *)
(* in the uploaded file.                                                   *)
(***************************************************************************)
\* the most text fragments reader.readtext returns for one upload
MaxFrags == 2

\* the text fragments the OCR engine may read
\* a screen capture: tool names, then the holder's name and birth date:
\* "CHROME EXTENSION JOHN SMITH Date of Birth 01/01/2000"
ChromeLine ==
    <<"C","H","R","O","M","E"," ","E","X","T","E","N","S","I","O","N"," ",
      "J","O","H","N"," ","S","M","I","T","H"," ","D","a","t","e"," ","o",
      "f"," ","B","i","r","t","h"," ","0","1","/","0","1","/","2","0","0",
      "0">>

\* a name after the honorific, with a one-letter artifact: "MD: ZAKIR HOSSAIN D"
HonorificLine ==
    <<"M","D",":"," ","Z","A","K","I","R"," ","H","O","S","S","A","I","N",
      " ","D">>

\* a labelled birth date: "DOB: 15/03/1999 more text"
DobLine ==
    <<"D","O","B",":"," ","1","5","/","0","3","/","1","9","9","9"," ","m",
      "o","r","e"," ","t","e","x","t">>

\* an impossible date, then the card's heading: "32/13/2099 PEOPLES REPUBLIC BANGLADESH"
InvalidDateLine ==
    <<"3","2","/","1","3","/","2","0","9","9"," ","P","E","O","P","L","E",
      "S"," ","R","E","P","U","B","L","I","C"," ","B","A","N","G","L","A",
      "D","E","S","H">>

\* a labelled number in groups of digits: "NID: 123 456 7890"
NidLine ==
    <<"N","I","D",":"," ","1","2","3"," ","4","5","6"," ","7","8","9","0">>

\* a labelled name, then a date with the month's name: "Name: MD ABDUL KARIM March 15, 1999"
NameLine ==
    <<"N","a","m","e",":"," ","M","D"," ","A","B","D","U","L"," ","K","A",
      "R","I","M"," ","M","a","r","c","h"," ","1","5",","," ","1","9","9",
      "9">>

\* an account number and a tax number, then the holder's name before the
\* label of the birth date:
\* "BO Account Number: 120123 1234567890 TIN: 123456789 RAHIM UDDIN Date of Birth"
AccountLine ==
    <<"B","O"," ","A","c","c","o","u","n","t"," ","N","u","m","b","e","r",
      ":"," ","1","2","0","1","2","3"," ","1","2","3","4","5","6","7","8",
      "9","0"," ","T","I","N",":"," ","1","2","3","4","5","6","7","8","9",
      " ","R","A","H","I","M"," ","U","D","D","I","N"," ","D","a","t","e",
      " ","o","f"," ","B","i","r","t","h">>

\* a stray letter and digit, then the name of a screen-capture tool:
\* "X 2 SCREENSHOT RECORDER"
ToolLine ==
    <<"X"," ","2"," ","S","C","R","E","E","N","S","H","O","T"," ","R","E",
      "C","O","R","D","E","R">>

\* a name after the honorific written with a full stop, then a year:
\* "MD. KARIMUL 1990"
PrefixedLine ==
    <<"M","D","."," ","K","A","R","I","M","U","L"," ","1","9","9","0">>

Fragments ==
    {ChromeLine, HonorificLine, DobLine, InvalidDateLine,
     NidLine, NameLine, AccountLine, ToolLine, PrefixedLine}

\* the lists of fragments of at most n fragments
RECURSIVE FragLists(_)
FragLists(n) ==
    IF n = 0 THEN {<<>>}
    ELSE FragLists(n - 1) \cup
         {Append(l, f) : l \in {l \in FragLists(n - 1) : Len(l) = n - 1}, f \in Fragments}

\* the form field "type" of a request that carries none
Missing == "<missing>"

\* the values of the form field "type"
DocTypes == {"NID", "BO", "TIN", "nid", "PASSPORT"}

\* the content types of the uploaded file (None: the part declares none)
ContentTypes == {"image/jpeg", "application/pdf", "text/plain", None}

\* 10 * 1024 * 1024
max_size == 10485760

\* The uploaded file: its length in bytes, whether it decodes (cv2.imread,
\* convert_from_bytes), the fragments reader.readtext finds in it, and whether
\* reader.readtext raises an error instead.  A PDF has one page for each
\* fragment.
Uploads ==
    {[len |-> 0, readable |-> FALSE, results |-> <<>>, ocr_fails |-> FALSE],
     [len |-> max_size + 1, readable |-> TRUE, results |-> <<>>, ocr_fails |-> FALSE],
     [len |-> 1, readable |-> FALSE, results |-> <<>>, ocr_fails |-> FALSE],
     [len |-> 2, readable |-> TRUE, results |-> <<NidLine>>, ocr_fails |-> TRUE]}
    \cup {[len |-> 1 + Len(l), readable |-> TRUE, results |-> l, ocr_fails |-> FALSE] :
             l \in FragLists(MaxFrags)}

Requests ==
    {[type |-> ty, content_type |-> ct, file |-> up] :
        ty \in DocTypes \cup {Missing}, ct \in ContentTypes, up \in Uploads}

VARIABLES
    request,    \* the request received
    response,   \* the response sent, NoResponse before
    ocr_runs,   \* the number of calls of reader.readtext so far
    temp_files  \* the temporary files that exist

vars == <<request, response, ocr_runs, temp_files>>

NoResponse == [status |-> 0]

(***************************************************************************)
(* perform_ocr_analysis, extract_text_from_file, extract_nid_info          *)
(***************************************************************************)
\* all_text of perform_ocr_analysis: the fragments read, joined with spaces
ocr_text(results) == Join(results)

\* what perform_ocr_analysis returns for an image in which the OCR engine
\* reads results
perform_ocr_analysis(results) ==
    Bind(ocr_text(results), LAMBDA all_text :
    Bind(extract_name(all_text), LAMBDA name :
    Bind(extract_date_of_birth(all_text), LAMBDA dob :
    Bind(extract_nid_number(all_text), LAMBDA nid :
        [name |-> IF name = None THEN "Not detected" ELSE name,
         dob |-> IF dob = None THEN "Not detected" ELSE dob,
         nid |-> IF nid = None THEN "Not detected" ELSE nid,
         extracted_text |-> all_text]))))

\* the text extract_text_from_file returns for a readable upload, which is
\* perform_ocr_analysis(...)["extracted_text"]: an image gives one OCR run, a
\* PDF one for each page, joined with single spaces
extract_text_from_file(content_type, file) ==
    IF content_type = "application/pdf"
    THEN Join([k \in 1..Len(file.results) |-> ocr_text(<<file.results[k]>>)])
    ELSE ocr_text(file.results)

\* a temporary file: the copy of the upload or of a page of the PDF
\* (temp_img), or the preprocessed image (temp_processed), of OCR run n
TempFile(kind, n) == [kind |-> kind, n |-> n]

\* the temporary files perform_ocr_analysis creates and deletes in OCR run n,
\* and whether it raises: cv2.imread returning None raises before the
\* preprocessed image is written, reader.readtext raising skips os.unlink
perform_ocr_files(n, readable, ocr_fails) ==
    [created |-> IF readable THEN {TempFile("temp_processed", n)} ELSE {},
     deleted |-> IF readable /\ ~ocr_fails THEN {TempFile("temp_processed", n)} ELSE {},
     raised |-> ~readable \/ ocr_fails]

\* the pages of the PDF for which extract_text_from_file calls
\* perform_ocr_analysis: none if convert_from_bytes raises, the pages up to
\* the first for which OCR raises
PagesTried(file) ==
    IF ~file.readable THEN {}
    ELSE IF file.ocr_fails /\ Len(file.results) > 0 THEN {1}
    ELSE 1..Len(file.results)

\* the temporary files extract_text_from_file and perform_ocr_analysis create
\* and delete: os.unlink(temp_img.name) follows the call of
\* perform_ocr_analysis and is skipped when that call raises
extract_text_files(content_type, file) ==
    IF content_type = "application/pdf"
    THEN [created |-> UNION {{TempFile("temp_img", k)}
                                \cup perform_ocr_files(k, TRUE, file.ocr_fails).created :
                             k \in PagesTried(file)},
          deleted |-> UNION {perform_ocr_files(k, TRUE, file.ocr_fails).deleted
                                \cup (IF perform_ocr_files(k, TRUE, file.ocr_fails).raised
                                      THEN {} ELSE {TempFile("temp_img", k)}) :
                             k \in PagesTried(file)}]
    ELSE [created |-> {TempFile("temp_img", 1)}
                         \cup perform_ocr_files(1, file.readable, file.ocr_fails).created,
          deleted |-> perform_ocr_files(1, file.readable, file.ocr_fails).deleted
                         \cup (IF perform_ocr_files(1, file.readable, file.ocr_fails).raised
                               THEN {} ELSE {TempFile("temp_img", 1)})]

\* the temporary files extract_text_from_file leaves behind
TempFilesLeft(content_type, file) ==
    extract_text_files(content_type, file).created
        \ extract_text_files(content_type, file).deleted

\* extract_text_from_file raises: the upload does not decode, or
\* reader.readtext raises for the image or for a page
Raises(content_type, file) ==
    \/ ~file.readable
    \/ file.ocr_fails /\ (content_type # "application/pdf" \/ Len(file.results) > 0)

\* the OCR runs of extract_text_from_file for a readable upload
OcrRuns(content_type, file) ==
    IF content_type = "application/pdf" THEN Len(file.results) ELSE 1

\* content_type.startswith('image/')
IsImage(content_type) ==
    content_type \in {"image/jpeg"}

HttpError(status, detail) == [status |-> status, body |-> [detail |-> detail]]

\* the response of POST /extract-nid-info/ to the request req, the OCR runs
\* it takes and the temporary files it leaves behind
extract_nid_info(req) ==
    IF req.type = Missing
    THEN [response |-> HttpError(422, "Field required"), runs |-> 0, files |-> {}]
    ELSE IF req.content_type = None
            \/ (~IsImage(req.content_type) /\ req.content_type # "application/pdf")
    THEN [response |-> HttpError(400, "File must be an image or PDF"),
          runs |-> 0, files |-> {}]
    ELSE IF req.file.len > max_size
    THEN [response |-> HttpError(400, "File size too large. Maximum size is 10MB"),
          runs |-> 0, files |-> {}]
    ELSE IF req.file.len = 0
    THEN [response |-> HttpError(400, "Empty file received"), runs |-> 0, files |-> {}]
    ELSE IF Raises(req.content_type, req.file)
    THEN [response |-> HttpError(500, IF req.content_type = "application/pdf"
                                         /\ ~req.file.readable
                                      THEN "Internal server error"
                                      ELSE "OCR processing failed"),
          runs |-> IF req.file.readable THEN 1 ELSE 0,
          files |-> TempFilesLeft(req.content_type, req.file)]
    ELSE Bind(extract_text_from_file(req.content_type, req.file), LAMBDA all_text :
             [response |-> [status |-> 200,
                            body |-> [type |-> req.type,
                                      details |-> extract_fields_by_type(req.type, all_text),
                                      raw_text |-> all_text]],
              runs |-> OcrRuns(req.content_type, req.file),
              files |-> TempFilesLeft(req.content_type, req.file)])

(***************************************************************************)
(* The state machine: a request arrives and is answered.                   *)
(***************************************************************************)
Init ==
    /\ request \in Requests
    /\ response = NoResponse
    /\ ocr_runs = 0
    /\ temp_files = {}

\* POST /extract-nid-info/
PostExtractNidInfo ==
    /\ response = NoResponse
    /\ \E out \in {extract_nid_info(request)} :
           /\ response' = out.response
           /\ ocr_runs' = ocr_runs + out.runs
           /\ temp_files' = temp_files \cup out.files
    /\ UNCHANGED request

Next == PostExtractNidInfo

Spec == Init /\ [][Next]_vars

(***************************************************************************)
(* The properties of the specification, stated over the answered request.  *)
(***************************************************************************)
\* the request reached extract_fields_by_type and was answered with its record
Extracted == response.status = 200

\* the keys of the record extract_fields_by_type returns
DetailKeys == {"name", "date_of_birth", "nid_number", "bo_id", "tin_number"}

\* the keys of d that hold a value
Present(d) == {k \in DOMAIN d : d[k] # None}

\* C1: the record extract_fields_by_type returns has exactly the five keys
\* name, date_of_birth, nid_number, bo_id and tin_number; for the type NID only
\* name, date_of_birth and nid_number can hold a value, for BO only bo_id, for
\* TIN only tin_number, and every other field is absent.
C1_RouterFields ==
    Extracted =>
        LET d == response.body.details
        IN  /\ DOMAIN d = DetailKeys
            /\ request.type = "NID" =>
                   /\ Present(d) \subseteq {"name", "date_of_birth", "nid_number"}
                   /\ d.name = extract_name(response.body.raw_text)
                   /\ d.date_of_birth = extract_date_of_birth(response.body.raw_text)
                   /\ d.nid_number = extract_nid_number(response.body.raw_text)
            /\ request.type = "BO" => Present(d) \subseteq {"bo_id"}
            /\ request.type = "TIN" => Present(d) \subseteq {"tin_number"}

\* a TIN request whose text holds both a tax number and an account number: the
\* tax number is returned, the account number is left absent
C1_Witness ==
    /\ Extracted
    /\ request.type = "TIN"
    /\ response.body.details.tin_number # None
    /\ Search(bo_pattern, response.body.raw_text, TRUE).ok
    /\ response.body.details.bo_id = None

\* the request passes the checks of the upload and its file decodes
Accepted(req) ==
    /\ req.type # Missing
    /\ req.content_type \in {"image/jpeg", "application/pdf"}
    /\ req.file.len > 0
    /\ req.file.len <= max_size
    /\ req.file.readable
    /\ ~req.file.ocr_fails

\* C2: for a type that is none of NID, BO and TIN, compared exactly, the router
\* returns the record with all five fields absent: the request is answered
\* without an error and with no field filled.
C2_UnknownTypeAllAbsent ==
    (response # NoResponse /\ Accepted(request)
        /\ request.type \notin {"NID", "BO", "TIN"}) =>
    /\ response.status = 200
    /\ DOMAIN response.body.details = DetailKeys
    /\ Present(response.body.details) = {}

\* a request of type "nid" whose text holds a number the NID extractor finds
C2_Witness ==
    /\ Extracted
    /\ request.type = "nid"
    /\ extract_nid_number(response.body.raw_text) # None
    /\ response.body.details = NoDetails

\* x occurs in t as a run of consecutive characters
IsSubstring(x, t) ==
    \E i \in 1..(Len(t) - Len(x) + 1) : SubSeq(t, i, i + Len(x) - 1) = x

\* v is the absence value or a non-empty contiguous substring of t
Traceable(v, t) == v = None \/ (v # <<>> /\ IsSubstring(v, t))

\* the honorific as extract_name writes it
Honorifics == {<<"M","D",":">>, <<"M","D",".">>}

\* v is the absence value or a non-empty string each of whose words is the
\* honorific or a contiguous substring of t
WordsTraceable(v, t) ==
    \/ v = None
    \/ /\ v # <<>>
       /\ \A k \in 1..Len(Split(v)) :
              Split(v)[k] \in Honorifics \/ IsSubstring(Split(v)[k], t)

\* C3 as stated: each of extract_name, extract_date_of_birth and
\* extract_nid_number returns the absence value or a non-empty contiguous
\* substring of its input text.
C3_AllSubstrings ==
    (Extracted /\ request.type = "NID") =>
        LET d == response.body.details
            t == response.body.raw_text
        IN  /\ Traceable(d.name, t)
            /\ Traceable(d.date_of_birth, t)
            /\ Traceable(d.nid_number, t)

\* C3 amended: extract_date_of_birth and extract_nid_number return the absence
\* value or a non-empty contiguous substring of the input text; extract_name
\* returns the absence value or a non-empty string of words each of which is
\* the honorific ("MD:" or "MD.") or a contiguous substring of the input text.
C3_TraceableFields ==
    (Extracted /\ request.type = "NID") =>
        LET d == response.body.details
            t == response.body.raw_text
        IN  /\ WordsTraceable(d.name, t)
            /\ Traceable(d.date_of_birth, t)
            /\ Traceable(d.nid_number, t)

\* all three fields are found, and the name is not a substring of the text
C3_Witness ==
    /\ Extracted
    /\ request.type = "NID"
    /\ response.body.details.name # None
    /\ ~IsSubstring(response.body.details.name, response.body.raw_text)
    /\ response.body.details.date_of_birth # None
    /\ response.body.details.nid_number # None

\* the answered request asked for the fields of a national identity card
ExtractedNid == Extracted /\ request.type = "NID"

\* C4: in every text in which rule 1 (the honorific "MD:" followed by
\* upper-case words and a trailing noise token) matches, extract_name returns
\* the result of rule 1, whatever the label rule, the context rule and the
\* fallback rule select in the same text.
C4_HonorificFirst ==
    (ExtractedNid /\ Search(md_pattern, response.body.raw_text, FALSE).ok) =>
        /\ response.body.details.name = md_rule(response.body.raw_text)
        /\ SubSeq(response.body.details.name, 1, 4) = <<"M","D",":"," ">>

\* rule 1 matches in a text whose fallback candidate is another, longer name
C4_Witness ==
    /\ ExtractedNid
    /\ Search(md_pattern, response.body.raw_text, FALSE).ok
    /\ fallback_rule(response.body.raw_text) # None
    /\ Len(fallback_rule(response.body.raw_text))
          > Len(md_rule(response.body.raw_text))
    /\ response.body.details.name # fallback_rule(response.body.raw_text)

\* the patterns of ps that match somewhere in t (re.IGNORECASE)
Hits(ps, t) == {k \in 1..Len(ps) : Search(ps[k], t, TRUE).ok}

\* the smallest number of the non-empty set S
Least(S) == CHOOSE k \in S : \A j \in S : k <= j

\* C5: extract_nid_number returns the first match of the first pattern, in the
\* order grouped digits, bare run of 10 to 17 digits, NID label, ID label,
\* National ID label, that matches anywhere in the text, without leading and
\* trailing whitespace and with its interior whitespace unchanged; a pattern
\* of lower priority is not consulted, even if its match starts earlier; on
\* "NID: 123 456 7890" the result is "123 456 7890" by the first pattern.
C5_NidPriority ==
    ExtractedNid =>
        LET t == response.body.raw_text
            nid == response.body.details.nid_number
            hits == Hits(nid_patterns, t)
            m == Search(nid_patterns[Least(hits)], t, TRUE)
        IN  /\ hits = {} => nid = None
            /\ hits # {} =>
                   /\ nid = Strip(GroupN(t, m, 1))
                   /\ IsSubstring(nid, Slice(t, m.start, m.end))
                   /\ nid[1] \notin Whitespace /\ nid[Len(nid)] \notin Whitespace
            /\ t = NidLine =>
                   /\ 1 \in hits
                   /\ nid = <<"1","2","3"," ","4","5","6"," ","7","8","9","0">>

\* the bare run of digits starts before the grouped digits, which are returned
C5_Witness ==
    /\ ExtractedNid
    /\ {1, 2} \subseteq Hits(nid_patterns, response.body.raw_text)
    /\ Search(nid_patterns[2], response.body.raw_text, TRUE).start
          < Search(nid_patterns[1], response.body.raw_text, TRUE).start
    /\ response.body.details.nid_number
          = <<"1","2","3"," ","4","5","6"," ","7","8","9","0">>

\* C6: extract_date_of_birth returns, verbatim and without validating the date,
\* the leftmost substring matched by the first pattern, in the order
\* DD-MM-YYYY, YYYY-MM-DD, DD Month YYYY, Month DD YYYY, that matches anywhere
\* in the text, even when a pattern of lower priority matches earlier;
\* "DOB: 15/03/1999 more text" gives "15/03/1999" and "32/13/2099" is returned
\* as it stands.
C6_DatePriority ==
    ExtractedNid =>
        LET t == response.body.raw_text
            dob == response.body.details.date_of_birth
            hits == Hits(date_patterns, t)
            m == Search(date_patterns[Least(hits)], t, TRUE)
        IN  /\ hits = {} => dob = None
            /\ hits # {} => dob = Slice(t, m.start, m.end)
            /\ t = DobLine =>
                   dob = <<"1","5","/","0","3","/","1","9","9","9">>
            /\ t = InvalidDateLine =>
                   dob = <<"3","2","/","1","3","/","2","0","9","9">>

\* a date with the month's name stands before the numeric date that is returned
C6_Witness ==
    /\ ExtractedNid
    /\ {1, 4} \subseteq Hits(date_patterns, response.body.raw_text)
    /\ Search(date_patterns[4], response.body.raw_text, TRUE).start
          < Search(date_patterns[1], response.body.raw_text, TRUE).start
    /\ response.body.details.date_of_birth
          = <<"1","5","/","0","3","/","1","9","9","9">>

JohnSmith == <<"J","O","H","N"," ","S","M","I","T","H">>

\* C7 as stated: in "CHROME EXTENSION JOHN SMITH Date of Birth 01/01/2000" the
\* context rule selects no candidate that holds a stoplist word; extract_name
\* returns "JOHN SMITH" when the context rule accepts that run, and the
\* absence value when it does not.
C7_ContextOrAbsent ==
    (ExtractedNid /\ response.body.raw_text = ChromeLine) =>
        LET by_context == dob_context_rule(ChromeLine)
        IN  /\ by_context # None =>
                   \A k \in 1..Len(Split(by_context)) :
                       Split(by_context)[k] \notin context_stoplist
            /\ response.body.details.name =
                   (IF JohnSmith = by_context THEN JohnSmith ELSE None)

\* C7 amended: in "CHROME EXTENSION JOHN SMITH Date of Birth 01/01/2000" the
\* candidate of the context rule is the whole run "CHROME EXTENSION JOHN
\* SMITH", which the rule refuses (four words, stoplist words), so the context
\* rule selects nothing; extract_name returns "JOHN SMITH", which the fallback
\* rule makes by removing the stoplist words from that run.
C7_FallbackJohnSmith ==
    (ExtractedNid /\ response.body.raw_text = ChromeLine) =>
        /\ dob_context_candidate(ChromeLine) = SubSeq(ChromeLine, 1, 27)
        /\ ~dob_context_accepts(dob_context_candidate(ChromeLine))
        /\ dob_context_rule(ChromeLine) = None
        /\ md_rule(ChromeLine) = None
        /\ name_rule(ChromeLine) = None
        /\ response.body.details.name = JohnSmith

\* the text of C7 was read and the name "JOHN SMITH" returned
C7_Witness ==
    /\ ExtractedNid
    /\ response.body.raw_text = ChromeLine
    /\ dob_context_rule(ChromeLine) = None
    /\ response.body.details.name = JohnSmith

\* C8: a response with status 200 carries the top-level fields name, dob, nid
\* and extracted_text, and extracted_text is the text the OCR engine read.
C8_FlatResponse ==
    Extracted =>
        /\ {"name", "dob", "nid", "extracted_text"} \subseteq DOMAIN response.body
        /\ response.body.extracted_text
              = extract_text_from_file(request.content_type, request.file)

\* a response with status 200 whose top-level fields are type, details and
\* raw_text
C8_Witness ==
    /\ Extracted
    /\ DOMAIN response.body = {"type", "details", "raw_text"}
    /\ response.body.details.nid_number # None

\* C9: a request that carries only a file is answered with status 400 when the
\* content type of the file is neither an image type nor application/pdf, and
\* with status 400 when the file is empty; in both cases no OCR is run.
C9_FileOnlyRejected ==
    (/\ response # NoResponse
     /\ request.type = Missing
     /\ \/ request.content_type \notin {"image/jpeg", "application/pdf"}
        \/ request.file.len = 0) =>
    /\ response.status = 400
    /\ ocr_runs = 0

\* a text/plain file sent without the form field "type" is answered with 422
C9_Witness ==
    /\ request.type = Missing
    /\ request.content_type = "text/plain"
    /\ response.status = 422
    /\ ocr_runs = 0

\* rules 1 to 3 find no name in the text of the answered request, so that the
\* name returned is the one of the fallback rule
FallbackDecides ==
    /\ ExtractedNid
    /\ md_rule(response.body.raw_text) = None
    /\ name_rule(response.body.raw_text) = None
    /\ dob_context_rule(response.body.raw_text) = None

\* the maximal runs of upper-case words of two letters or more in t, each as
\* the list of its words
Runs(t) ==
    LET all_caps == FindAll(fallback_pattern, t, FALSE)
    IN  [k \in 1..Len(all_caps) |-> Split(Strip(GroupN(t, all_caps[k], 2)))]

\* a word of the run is in the stoplist of the fallback rule
Tainted(run) == \E j \in 1..Len(run) : run[j] \in fallback_stoplist

\* the words of the run that are not in the stoplist, in their order
Kept(run) == SelectSeq(run, LAMBDA word : word \notin fallback_stoplist)

\* the words of the name without the honorific "MD." in front
NameWordsOf(name) ==
    IF Split(name)[1] = <<"M","D",".">> THEN Tail(Split(name)) ELSE Split(name)

\* C11 as stated: the fallback rule discards as a whole every run of upper-case
\* words that holds a stoplist word: no word of such a run is in the value
\* returned, and if every run holds a stoplist word the value is absent.
C11_TaintedRunsDiscarded ==
    FallbackDecides =>
        LET name == response.body.details.name
            runs == Runs(response.body.raw_text)
        IN  /\ (\A k \in 1..Len(runs) : Tainted(runs[k])) => name = None
            /\ name # None =>
                   \A k \in 1..Len(runs) :
                       Tainted(runs[k]) =>
                           \A j \in 1..Len(runs[k]) :
                               \A i \in 1..Len(NameWordsOf(name)) :
                                   NameWordsOf(name)[i] # runs[k][j]

\* C11 amended: the fallback rule removes the stoplist words from every run of
\* upper-case words and keeps the other words of the run in their order: the
\* value returned holds no stoplist word and is, after the honorific "MD." if
\* there is one, the kept words of one run joined by single spaces; the value
\* is absent exactly when every word of every run is a stoplist word.
C11_StoplistWordsRemoved ==
    FallbackDecides =>
        LET name == response.body.details.name
            runs == Runs(response.body.raw_text)
        IN  /\ name = None <=> \A k \in 1..Len(runs) : Kept(runs[k]) = <<>>
            /\ name # None =>
                   /\ \A i \in 1..Len(Split(name)) : Split(name)[i] \notin fallback_stoplist
                   /\ \E k \in 1..Len(runs) :
                          /\ Kept(runs[k]) # <<>>
                          /\ NameWordsOf(name) = Kept(runs[k])

\* the name returned is what is left of a run from which a stoplist word was
\* removed, in a text without the tool names CHROME and EXTENSION
C11_Witness ==
    /\ FallbackDecides
    /\ response.body.details.name # None
    /\ \E k \in 1..Len(Runs(response.body.raw_text)) :
           /\ Len(Runs(response.body.raw_text)[k]) = 3
           /\ <<"R","E","P","U","B","L","I","C">>
                  = Runs(response.body.raw_text)[k][2]
           /\ NameWordsOf(response.body.details.name)
                  = Kept(Runs(response.body.raw_text)[k])

\* the candidates of the fallback rule in t, in the order of the text: what is
\* left of each run after the stoplist words are removed, with the honorific
\* found in front of the run ("" if none); a run of which nothing is left is
\* no candidate
Candidates(t) ==
    LET all_caps == FindAll(fallback_pattern, t, FALSE)
    IN  SelectSeq([k \in 1..Len(all_caps) |->
                     [prefix |-> GroupN(t, all_caps[k], 1),
                      name |-> Join(Kept(Split(Strip(GroupN(t, all_caps[k], 2)))))]],
                  LAMBDA c : c.name # <<>>)

\* the name the fallback rule makes of the candidate c
Rendered(c) ==
    (IF c.prefix # <<>> THEN <<"M","D","."," ">> ELSE <<>>) \o c.name

\* C12 as stated: of the runs that remain after the stoplist is applied, the
\* fallback rule returns the one with the greatest length, the length being
\* that of the run itself, with "MD." in front exactly when an honorific stood
\* before the run; no remaining run is longer than the one returned.
C12_LongestRun ==
    (FallbackDecides /\ response.body.details.name # None) =>
        LET cs == Candidates(response.body.raw_text)
        IN  \E k \in 1..Len(cs) :
                /\ response.body.details.name = Rendered(cs[k])
                /\ \A j \in 1..Len(cs) : Len(cs[j].name) <= Len(cs[k].name)

\* C12 amended: the length compared includes the honorific as it stands in the
\* text before the run: the fallback rule returns the first of the candidates
\* for which the length of honorific and remaining run together, without
\* surrounding whitespace, is greatest, with "MD." in front exactly when an
\* honorific stood before the run; no candidate has a greater such length.
C12_LongestWithHonorific ==
    (FallbackDecides /\ response.body.details.name # None) =>
        LET cs == Candidates(response.body.raw_text)
            keys == [k \in 1..Len(cs) |-> Len(Strip(cs[k].prefix \o cs[k].name))]
        IN  \E k \in 1..Len(cs) :
                /\ response.body.details.name = Rendered(cs[k])
                /\ \A j \in 1..Len(cs) : keys[j] <= keys[k]
                /\ \A j \in 1..(k - 1) : keys[j] < keys[k]

\* the name returned, "MD. KARIMUL", is of a run shorter than another that
\* remains, "JOHN SMITH"
C12_Witness ==
    /\ FallbackDecides
    /\ <<"M","D","."," ","K","A","R","I","M","U","L">> = response.body.details.name
    /\ \E j \in 1..Len(Candidates(response.body.raw_text)) :
           Candidates(response.body.raw_text)[j].name = JohnSmith

\* rule 1 matches in the text of the answered request and so makes the name
HonorificDecides ==
    ExtractedNid /\ Search(md_pattern, response.body.raw_text, FALSE).ok

\* the words rule 1 matched after "MD:" in t
HonorificWords(t) == Split(Strip(GroupN(t, Search(md_pattern, t, FALSE), 1)))

\* C13: when rule 1 makes the name, the single letters at the tail of the
\* matched words have been removed: the name is "MD: " and then the matched
\* words without single letters at their end, joined by single spaces, and if
\* more than one word was matched the last word of the name has two letters
\* or more.
C13_TrailingLettersStripped ==
    HonorificDecides =>
        LET name == response.body.details.name
            matched == HonorificWords(response.body.raw_text)
            words == Split(SubSeq(name, 5, Len(name)))
        IN  /\ SubSeq(name, 1, 4) = <<"M","D",":"," ">>
            /\ SubSeq(name, 5, Len(name)) = Join(words)
            /\ Len(words) >= 1 /\ Len(words) <= Len(matched)
            /\ words = SubSeq(matched, 1, Len(words))
            /\ \A k \in (Len(words) + 1)..Len(matched) : Len(matched[k]) = 1
            /\ Len(matched) > 1 => Len(words[Len(words)]) >= 2

\* rule 1 matched words that end with two single letters, and the name
\* returned still ends with one of them: "MD: ZAKIR HOSSAIN D"
C13_Witness ==
    /\ HonorificDecides
    /\ Len(HonorificWords(response.body.raw_text)) = 4
    /\ Len(HonorificWords(response.body.raw_text)[3]) = 1
    /\ Len(HonorificWords(response.body.raw_text)[4]) = 1
    /\ <<"M","D",":"," ","Z","A","K","I","R"," ","H","O","S","S","A","I","N"," ","D">>
           = response.body.details.name

\* the request was answered: its handling has ended
Answered == response # NoResponse

\* C14: every temporary file made while the upload is handled (the copy of the
\* upload or of a page, the preprocessed image) is deleted when the handling
\* of the request ends, with a result or with an error of image loading or of
\* OCR.
C14_TempFilesDeleted == Answered => temp_files = {}

\* an image that cv2.imread cannot decode is answered with 500 and its copy
\* is left behind
C14_Witness ==
    /\ Answered
    /\ request.content_type = "image/jpeg"
    /\ ~request.file.readable
    /\ response.status = 500
    /\ temp_files = {TempFile("temp_img", 1)}

====
